---- MODULE Spec2Model ----
(***************************************************************************)
(* The Bayesian belief-updating experiment: the desktop controller         *)
(* (bayesian_experiment.py) and the HTTP variant (app.py).                 *)
(*                                                                         *)
(* Probabilities and the values of random.random() are counted in          *)
(* hundredths (70 stands for 0.7).  A number typed into an InputBox is a   *)
(* pair <<num, den>> with den a power of ten (<<101, 10>> is 10.1); the    *)
(* empty tuple stands for Python's None.                                   *)
(***************************************************************************)
EXTENDS Integers, Sequences, FiniteSets, TLC

(***************************************************************************)
(* Bounds of the model.                                                    *)
(***************************************************************************)
\* largest num_trials a stage of the stage harness is constructed with
MaxTrials == 2
\* how many trials beyond num_trials one event batch is followed for
MaxOver == 1

None == <<>>

(***************************************************************************)
(* Inputs.  The participant types, key by key, the texts named here (and   *)
(* so every prefix of them): few of them where stages run for several      *)
(* trials, the boundary cases where one response form is filled in.        *)
(***************************************************************************)
HarnessEstimateTexts == { <<"7">> }
HarnessConfidenceTexts == { <<"5">> }
FormTexts == { <<"0">>, <<"1", "0", "0">>, <<"1", "0", "1">>, <<"1", "1">>,
               <<"1", "0", ".", "1">>, <<".">> }
SessionTexts == { <<"5">> }
SessionInitialTexts == { <<"7">> }
\* values random.random() returns, in hundredths of [0, 1)
HarnessRandoms == {20, 80}
SessionRandoms == {50}
\* values random.random() returns for a jar's hidden probability
JarProbabilities == {30, 70}
HarnessProbabilities == {50, 150}
FormProbabilities == {50}
\* the jar_probability a stage is resumed with, besides that of the data it resumes
OtherProbabilities == {30}

IsPrefix(s, t) == Len(s) <= Len(t) /\ SubSeq(t, 1, Len(s)) = s

(***************************************************************************)
(* float(text) for a text of digits and dots, as Python parses it: at      *)
(* most one dot and at least one digit, else ValueError (None here).       *)
(***************************************************************************)
Digits == <<"0", "1", "2", "3", "4", "5", "6", "7", "8", "9">>

IsDigit(c) == \E i \in 1..Len(Digits) : Digits[i] = c

DigitValue(c) == (CHOOSE i \in 1..Len(Digits) : Digits[i] = c) - 1

RECURSIVE Pow10(_)
Pow10(n) == IF n = 0 THEN 1 ELSE 10 * Pow10(n - 1)

RECURSIVE Number(_)
Number(ds) ==
    IF ds = <<>> THEN 0
    ELSE 10 * Number(SubSeq(ds, 1, Len(ds) - 1)) + DigitValue(ds[Len(ds)])

RECURSIVE Normal(_)
Normal(v) ==
    IF v[2] > 1 /\ v[1] % 10 = 0 THEN Normal(<<v[1] \div 10, v[2] \div 10>>) ELSE v

Float(text) ==
    LET dots   == { i \in 1..Len(text) : text[i] = "." }
        others == { i \in 1..Len(text) : text[i] # "." /\ ~IsDigit(text[i]) }
    IN  IF Cardinality(dots) > 1 \/ others # {} \/ Len(text) = Cardinality(dots)
        THEN None
        ELSE LET d == IF dots = {} THEN Len(text) + 1 ELSE CHOOSE i \in dots : TRUE
                 whole == SubSeq(text, 1, d - 1)
                 frac  == SubSeq(text, d + 1, Len(text))
             IN  Normal(<<Number(whole) * Pow10(Len(frac)) + Number(frac),
                          Pow10(Len(frac))>>)

\* min_val <= value <= max_val for a value <<num, den>>
Within(v, min_val, max_val) == min_val * v[2] <= v[1] /\ v[1] <= max_val * v[2]

\* mutant: the upper limit itself is refused
get_value_exclusive(text, min_val, max_val) ==
    LET value == Float(text)
    IN  IF value # None /\ min_val * value[2] <= value[1] /\ value[1] < max_val * value[2]
        THEN value ELSE None

\* InputBox.get_value
get_value(text, min_val, max_val) ==
    LET value == Float(text)
    IN  IF value # None /\ Within(value, min_val, max_val) THEN value ELSE None


(***************************************************************************)
(* State.                                                                  *)
(***************************************************************************)
VARIABLES
    pc,                    \* where Experiment.run stands ("harness": a stage on its own)
    inBatch,               \* a `for event in pygame.event.get()` loop is under way
    waiting,               \* the running screen's loop flag (waiting, running, not consent_given)
    data,                  \* DataCollector.data
    exported,              \* what DataCollector.export has written, one entry per call
    trial_num,             \* Experiment._run_training: the loop variable
    trial,                 \* the TrainingTrial under way
    heap,                  \* the list objects: heap[ref] is one stage's three lists
    lists,                 \* the running stage's samples/estimates/confidences (a ref)
    jar_color,
    num_trials,
    urn_probability,       \* self.urn.probability
    current_trial,
    waiting_for_draw,
    waiting_for_estimate,
    need_initial_estimate,
    estimate_input,        \* [text, active]
    confidence_input,      \* [text, active]
    spc,                   \* where MainExperimentStage.run stands
    previous,              \* what previous_data held when the stage was constructed
    lastOp,                \* the stage's last draw or accepted response
    signal,                \* the error the last handled event raised ("none": no error)
    refused,               \* the last handled event was a Submit click while awaiting a draw
    experiment_data,       \* app.py: the session store, by participant id
    response               \* app.py: the response to the last request

stageVars == <<heap, lists, jar_color, num_trials, urn_probability, current_trial,
               waiting_for_draw, waiting_for_estimate, need_initial_estimate,
               estimate_input, confidence_input, spc, previous, lastOp, signal,
                   refused>>

sessionVars == <<data, exported, trial_num, trial>>

desktopVars == <<pc, inBatch, waiting, sessionVars, stageVars>>

httpVars == <<experiment_data, response>>

vars == <<desktopVars, httpVars>>

EmptyLists == [samples |-> <<>>, estimates |-> <<>>, confidences |-> <<>>]

EmptyBox == [text |-> <<>>, active |-> FALSE]

NoPrevious == [given |-> FALSE, samples |-> <<>>, estimates |-> <<>>, confidences |-> <<>>]

NoStageData == [ref |-> 0, true_probability |-> 0 - 1]

NoTrial == [urn_a |-> 0, urn_b |-> 0, true_urn |-> "None", result |-> "None"]

\* the running stage's lists
Samples == heap[lists].samples
Estimates == heap[lists].estimates
Confidences == heap[lists].confidences

InStage == pc \in {"harness", "form", "stage1", "stage2", "stage3"}

(***************************************************************************)
(* app.py: the session store and the responses.                            *)
(***************************************************************************)
Participants == {"P1", "P2"}

NoSession ==
    [present |-> FALSE, red_jar_probability |-> 0, green_jar_probability |-> 0,
     training_trials |-> <<>>, red_jar_stage1 |-> EmptyLists,
     green_jar_stage2 |-> EmptyLists, red_jar_stage3 |-> EmptyLists]

NoSessions == [p \in Participants |-> NoSession]

\* a response: the status, the 'error' entry of the JSON body ("" if it has none) and
\* the other entries of the body
Response(status, error, body) == [status |-> status, error |-> error, body |-> body]

\* a body with no entry besides 'error'
NoBody == [success |-> FALSE]

\* {'success': True}
Success == [success |-> TRUE]

NoResponse == Response(0, "", NoBody)

(***************************************************************************)
(* Events of pygame.event.get().  A click is named by the widget it hits   *)
(* (the rectangles of one screen are disjoint), "elsewhere" for none.      *)
(***************************************************************************)
Event(type, key, unicode, at) == [type |-> type, key |-> key, unicode |-> unicode, at |-> at]

QuitEvent == Event("QUIT", "", "", "")
SpaceEvent == Event("KEYDOWN", "K_SPACE", " ", "")
KeyEvent(c) == Event("KEYDOWN", "", c, "")
BackspaceEvent == Event("KEYDOWN", "K_BACKSPACE", "", "")
ReturnEvent == Event("KEYDOWN", "K_RETURN", "", "")
ClickEvent(at) == Event("MOUSEBUTTONDOWN", "", "", at)

EstimateTexts ==
    IF pc = "harness" THEN HarnessEstimateTexts
    ELSE IF pc = "form" THEN FormTexts ELSE SessionTexts

\* the texts typed for the estimate given before the first draw
InitialEstimateTexts ==
    IF pc \in {"harness", "form"} THEN EstimateTexts ELSE SessionInitialTexts

ConfidenceTexts ==
    IF pc = "harness" THEN HarnessConfidenceTexts
    ELSE IF pc = "form" THEN FormTexts ELSE SessionTexts

\* the trials beyond num_trials that one event batch is followed for
Overshoot == IF pc = "form" THEN 0 ELSE MaxOver

Randoms == IF pc \in {"harness", "form"} THEN HarnessRandoms ELSE SessionRandoms

Typeable(text, texts) == \E t \in texts : IsPrefix(text, t)

Characters ==
    UNION { { t[i] : i \in 1..Len(t) } :
              t \in EstimateTexts \cup ConfidenceTexts \cup InitialEstimateTexts }

StageEvents ==
    {SpaceEvent, BackspaceEvent, ReturnEvent}
        \cup { KeyEvent(c) : c \in Characters }
        \cup { ClickEvent(at) : at \in {"estimate_input", "confidence_input",
                                        "submit_button", "elsewhere"} }

\* InputBox.handle_event: the box after the event
InputBox_handle_event(box, name, event) ==
    LET active == IF event.type = "MOUSEBUTTONDOWN" THEN event.at = name ELSE box.active
        text ==
            IF event.type = "KEYDOWN" /\ active
            THEN IF event.key = "K_BACKSPACE"
                 THEN SubSeq(box.text, 1, Len(box.text) - 1)
                 ELSE IF event.key = "K_RETURN"
                 THEN box.text
                 ELSE IF IsDigit(event.unicode) \/ event.unicode = "."
                 THEN Append(box.text, event.unicode)
                 ELSE box.text
            ELSE box.text
    IN  [text |-> text, active |-> active]

\* Button.handle_event: the button was clicked
Button_handle_event(name, event) == event.type = "MOUSEBUTTONDOWN" /\ event.at = name

\* Urn.__init__, line 95: the probability the urn holds
Urn_init(probability) == probability

\* Urn.draw_ball with random.random() = r
Urn_draw_ball(probability, r) == IF r < probability THEN "black" ELSE "white"

\* mutant: a resumed stage takes over the samples and confidences of previous_data
\* and starts its estimates afresh
MainExperimentStage_init_noEstimates(color, n, probability, prevRef) ==
    /\ jar_color' = color
    /\ num_trials' = n
    /\ urn_probability' = Urn_init(probability)
    /\ IF prevRef # 0
       THEN /\ heap' = Append(heap, [heap[prevRef] EXCEPT !.estimates = <<>>])
            /\ lists' = Len(heap) + 1
            /\ current_trial' = Len(heap[prevRef].samples)
            /\ previous' = [given |-> TRUE,
                            samples |-> heap[prevRef].samples,
                            estimates |-> heap[prevRef].estimates,
                            confidences |-> heap[prevRef].confidences]
       ELSE /\ heap' = Append(heap, EmptyLists)
            /\ lists' = Len(heap) + 1
            /\ current_trial' = 0
            /\ previous' = NoPrevious
    /\ waiting_for_draw' = TRUE
    /\ waiting_for_estimate' = FALSE
    /\ estimate_input' = EmptyBox
    /\ confidence_input' = EmptyBox
    /\ need_initial_estimate' = (current_trial' = 0 /\ prevRef = 0)
    /\ spc' = IF need_initial_estimate' THEN "init_est" ELSE "loop"
    /\ waiting' = need_initial_estimate'
    /\ inBatch' = FALSE
    /\ lastOp' = "none"
    /\ signal' = "none"
    /\ refused' = FALSE

(***************************************************************************)
(* MainExperimentStage.__init__ followed by the entry of run(): prevRef is *)
(* 0 for previous_data = None, else the lists previous_data holds.         *)
(***************************************************************************)
MainExperimentStage_init(color, n, probability, prevRef) ==
    /\ jar_color' = color
    /\ num_trials' = n
    /\ urn_probability' = Urn_init(probability)
    /\ IF prevRef # 0
       THEN /\ heap' = heap
            /\ lists' = prevRef
            /\ current_trial' = Len(heap[prevRef].samples)
            /\ previous' = [given |-> TRUE,
                            samples |-> heap[prevRef].samples,
                            estimates |-> heap[prevRef].estimates,
                            confidences |-> heap[prevRef].confidences]
       ELSE /\ heap' = Append(heap, EmptyLists)
            /\ lists' = Len(heap) + 1
            /\ current_trial' = 0
            /\ previous' = NoPrevious
    /\ waiting_for_draw' = TRUE
    /\ waiting_for_estimate' = FALSE
    /\ estimate_input' = EmptyBox
    /\ confidence_input' = EmptyBox
    /\ need_initial_estimate' = (current_trial' = 0 /\ prevRef = 0)
    /\ spc' = IF need_initial_estimate' THEN "init_est" ELSE "loop"
    /\ waiting' = need_initial_estimate'
    /\ inBatch' = FALSE
    /\ lastOp' = "none"
    /\ signal' = "none"
    /\ refused' = FALSE

(***************************************************************************)
(* MainExperimentStage: the event handlers.  Each action handles one event *)
(* of the batch under way; the loop condition is read again only between   *)
(* batches (EndBatch), as the `for` loop runs inside the `while` loop.     *)
(***************************************************************************)
\* mutant: the space bar draws whatever the stage awaits
DrawPermitted_always == TRUE

\* run, line 435: the space bar draws
DrawPermitted == waiting_for_draw

\* mutant: the form is served whatever the stage awaits
FormServed_always == TRUE

\* run, line 439: the boxes and the submit button are served
FormServed == waiting_for_estimate

\* _submit_response, line 532: the response is accepted
ResponseAccepted(estimate, confidence) == estimate # None /\ confidence # None

\* mutant: the stage ends one trial early
StageGoesOn_short == current_trial + 1 < num_trials

\* run, line 427: the stage goes on
StageGoesOn == current_trial < num_trials

\* _draw_ball, with random.random() = r
_draw_ball(r) ==
    /\ heap' = [heap EXCEPT ![lists].samples = Append(@, Urn_draw_ball(urn_probability, r))]
    /\ waiting_for_draw' = FALSE
    /\ waiting_for_estimate' = TRUE
    /\ lastOp' = "draw"

\* _submit_response, the boxes holding est and conf
_submit_response(est, conf) ==
    LET estimate == get_value(est.text, 0, 100)
        confidence == get_value(conf.text, 0, 10)
    IN  IF ResponseAccepted(estimate, confidence)
        THEN /\ heap' = [heap EXCEPT ![lists].estimates = Append(@, estimate),
                                     ![lists].confidences = Append(@, confidence)]
             /\ estimate_input' = EmptyBox
             /\ confidence_input' = EmptyBox
             /\ current_trial' = current_trial + 1
             /\ waiting_for_estimate' = FALSE
             /\ waiting_for_draw' = TRUE
             /\ lastOp' = "response"
        ELSE /\ estimate_input' = est
             /\ confidence_input' = conf
             /\ UNCHANGED <<heap, current_trial, waiting_for_estimate, waiting_for_draw,
                            lastOp>>

\* run, lines 427-444: one event other than QUIT
RunEvent(event) ==
    /\ InStage /\ spc = "loop"
    /\ inBatch \/ StageGoesOn
    /\ inBatch' = TRUE
    /\ signal' = "none"
    /\ refused' = (waiting_for_draw /\ Button_handle_event("submit_button", event))
    /\ IF event.type = "KEYDOWN" /\ event.key = "K_SPACE" /\ DrawPermitted
       THEN \* the boxes see the space key next, and it is no digit
            /\ Len(Samples) < num_trials + Overshoot
            /\ \E r \in Randoms : _draw_ball(r)
            /\ UNCHANGED <<estimate_input, confidence_input, current_trial>>
       ELSE IF FormServed
       THEN LET est == InputBox_handle_event(estimate_input, "estimate_input", event)
                conf == InputBox_handle_event(confidence_input, "confidence_input", event)
            IN  /\ Typeable(est.text, EstimateTexts) /\ Typeable(conf.text, ConfidenceTexts)
                /\ IF Button_handle_event("submit_button", event)
                   THEN _submit_response(est, conf)
                   ELSE /\ estimate_input' = est
                        /\ confidence_input' = conf
                        /\ UNCHANGED <<heap, current_trial, waiting_for_estimate,
                                       waiting_for_draw, lastOp>>
       ELSE UNCHANGED <<heap, current_trial, waiting_for_estimate, waiting_for_draw,
                        lastOp, estimate_input, confidence_input>>
    /\ UNCHANGED <<pc, waiting, sessionVars, lists, jar_color, num_trials,
                   urn_probability, need_initial_estimate, spc, previous>>

\* _get_initial_estimate, lines 464-477: one event other than QUIT
InitialEstimateEvent(event) ==
    /\ InStage /\ spc = "init_est"
    /\ inBatch \/ waiting
    /\ inBatch' = TRUE
    /\ signal' = "none"
    /\ refused' = FALSE
    /\ LET est == InputBox_handle_event(estimate_input, "estimate_input", event)
           estimate == get_value(est.text, 0, 100)
       IN  /\ Typeable(est.text, InitialEstimateTexts)
           /\ IF Button_handle_event("submit_button", event) /\ estimate # None
              THEN /\ Len(Estimates) < 1 + Overshoot
                   /\ heap' = [heap EXCEPT ![lists].estimates = Append(@, estimate)]
                   /\ estimate_input' = EmptyBox
                   /\ waiting' = FALSE
              ELSE /\ estimate_input' = est
                   /\ UNCHANGED <<heap, waiting>>
    /\ UNCHANGED <<pc, sessionVars, lists, jar_color, num_trials, urn_probability,
                   current_trial, waiting_for_draw, waiting_for_estimate,
                   need_initial_estimate, confidence_input, spc, previous, lastOp>>

\* run, lines 423-425: _get_initial_estimate returns
InitialEstimateReturn ==
    /\ InStage /\ spc = "init_est"
    /\ ~inBatch /\ ~waiting
    /\ need_initial_estimate' = FALSE
    /\ spc' = "loop"
    /\ UNCHANGED <<pc, inBatch, waiting, sessionVars, heap, lists, jar_color, num_trials,
                   urn_probability, current_trial, waiting_for_draw,
                   waiting_for_estimate, estimate_input, confidence_input, previous,
                   lastOp, signal,
                   refused>>

\* the `for event in pygame.event.get()` loop of the running screen ends
EndBatch ==
    /\ inBatch
    /\ pc \notin {"exited", "declined", "done"}
    /\ inBatch' = FALSE
    /\ UNCHANGED <<pc, waiting, sessionVars, stageVars>>

\* pygame.QUIT in a screen that calls sys.exit()
Quit ==
    /\ \/ InStage /\ spc = "init_est" /\ (inBatch \/ waiting)
       \/ InStage /\ spc = "loop" /\ (inBatch \/ StageGoesOn)
    /\ pc' = "exited"
    /\ inBatch' = FALSE
    /\ UNCHANGED <<waiting, sessionVars, stageVars>>

\* DataCollector.add_stage_data
add_stage_data(stage_name, stage_data) == [data EXCEPT ![stage_name] = stage_data]

\* run, lines 452-458: what run() returns
ReturnedData == [ref |-> lists, true_probability |-> urn_probability]

RunReturns == InStage /\ spc = "loop" /\ ~inBatch /\ ~StageGoesOn

(***************************************************************************)
(* The stage harness: a fresh MainExperimentStage is run to its return and *)
(* a second one is then constructed from the data it returned.             *)
(***************************************************************************)
HarnessInit ==
    /\ pc = "harness"
    /\ inBatch = FALSE
    /\ waiting = TRUE
    /\ data = [training_trials |-> <<>>, red_jar_stage1 |-> NoStageData,
               green_jar_stage2 |-> NoStageData, red_jar_stage3 |-> NoStageData]
    /\ exported = <<>>
    /\ trial_num = 0
    /\ trial = NoTrial
    /\ heap = <<EmptyLists>>
    /\ lists = 1
    /\ jar_color = "red"
    /\ num_trials \in 1..MaxTrials
    /\ urn_probability \in { Urn_init(p) : p \in HarnessProbabilities }
    /\ current_trial = 0
    /\ waiting_for_draw = TRUE
    /\ waiting_for_estimate = FALSE
    /\ need_initial_estimate = TRUE
    /\ estimate_input = EmptyBox
    /\ confidence_input = EmptyBox
    /\ spc = "init_est"
    /\ previous = NoPrevious
    /\ lastOp = "none"
    /\ signal = "none"
    /\ refused = FALSE
    /\ experiment_data = NoSessions
    /\ response = NoResponse

\* run() returns; the data of the fresh stage is stored as Experiment.run stores
\* stage 1's (lines 935-936)
HarnessReturn ==
    /\ pc \in {"harness", "form"} /\ RunReturns
    /\ spc' = "returned"
    /\ data' = IF previous.given THEN data
               ELSE add_stage_data("red_jar_stage1", ReturnedData)
    /\ UNCHANGED <<pc, inBatch, waiting, exported, trial_num, trial, heap, lists, jar_color, num_trials,
                   urn_probability, current_trial, waiting_for_draw,
                   waiting_for_estimate, need_initial_estimate, estimate_input,
                   confidence_input, previous, lastOp, signal,
                   refused>>

HarnessResume ==
    /\ pc = "harness" /\ spc = "returned" /\ ~previous.given
    /\ \E n \in 1..MaxTrials :
       \E jar_probability \in {ReturnedData.true_probability} \cup OtherProbabilities :
          MainExperimentStage_init(jar_color, n, jar_probability, ReturnedData.ref)
    /\ UNCHANGED <<pc, sessionVars>>

StageNext ==
    \/ \E event \in StageEvents : InitialEstimateEvent(event)
    \/ InitialEstimateReturn
    \/ \E event \in StageEvents : RunEvent(event)
    \/ EndBatch
    \/ Quit

HarnessNext ==
    /\ \/ StageNext
       \/ HarnessReturn
       \/ HarnessResume
    /\ UNCHANGED httpVars

SpecStage == HarnessInit /\ [][HarnessNext]_vars

(***************************************************************************)
(* The response form: one fresh stage of one trial, filled in with the     *)
(* boundary texts.                                                         *)
(***************************************************************************)
FormInit ==
    /\ pc = "form"
    /\ inBatch = FALSE
    /\ waiting = TRUE
    /\ data = [training_trials |-> <<>>, red_jar_stage1 |-> NoStageData,
               green_jar_stage2 |-> NoStageData, red_jar_stage3 |-> NoStageData]
    /\ exported = <<>>
    /\ trial_num = 0
    /\ trial = NoTrial
    /\ heap = <<EmptyLists>>
    /\ lists = 1
    /\ jar_color = "red"
    /\ num_trials = 1
    /\ urn_probability \in { Urn_init(p) : p \in FormProbabilities }
    /\ current_trial = 0
    /\ waiting_for_draw = TRUE
    /\ waiting_for_estimate = FALSE
    /\ need_initial_estimate = TRUE
    /\ estimate_input = EmptyBox
    /\ confidence_input = EmptyBox
    /\ spc = "init_est"
    /\ previous = NoPrevious
    /\ lastOp = "none"
    /\ signal = "none"
    /\ refused = FALSE
    /\ experiment_data = NoSessions
    /\ response = NoResponse

FormNext ==
    /\ \/ StageNext
       \/ HarnessReturn
    /\ UNCHANGED httpVars

SpecForm == FormInit /\ [][FormNext]_vars

(***************************************************************************)
(* The desktop controller, Experiment.run, screen by screen.               *)
(***************************************************************************)
\* _run_training, line 960
num_training_trials == 10
\* Experiment.run, lines 934, 940 and 946: num_trials of the three stages
Stage1Trials == 40
Stage2Trials == 30
Stage3Trials == 30

\* TrainingTrial.__init__, line 261: the 11-urn set
available_probs == { 10 * i : i \in 0..10 }

\* the clicks followed: either button in the first training trial, the button of the
\* true urn in the later ones
TrainingClicks ==
    IF trial_num = 1 THEN {"button_a", "button_b", "elsewhere"}
    ELSE {IF trial.true_urn = "A" THEN "button_a" ELSE "button_b", "elsewhere"}

\* mutant: the two urns are sampled with replacement
TrainingTrial_init_withReplacement ==
    \E a \in available_probs : \E b \in available_probs : \E t \in {"A", "B"} :
        /\ trial' = [urn_a |-> a, urn_b |-> b, true_urn |-> t, result |-> "None"]
        /\ waiting' = TRUE
        /\ inBatch' = FALSE

\* TrainingTrial.__init__: two urns sampled without replacement, one the true source
TrainingTrial_init ==
    \E a \in available_probs : \E b \in available_probs \ {a} : \E t \in {"A", "B"} :
        /\ trial' = [urn_a |-> a, urn_b |-> b, true_urn |-> t, result |-> "None"]
        /\ waiting' = TRUE
        /\ inBatch' = FALSE

\* mutant: run goes on although consent was refused
AfterConsent_regardless(consented) == "instr_training"

\* Experiment.run, lines 922-927: where run goes on after the consent screen
AfterConsent(consented) == IF consented THEN "instr_training" ELSE "declined"

\* ConsentScreen.run, lines 720-729: one event
ConsentEvent(event) ==
    /\ pc = "consent"
    /\ inBatch \/ waiting
    /\ IF event.type = "QUIT" \/ Button_handle_event("decline_button", event)
       THEN \* run() returns False and Experiment.run returns
            /\ pc' = AfterConsent(FALSE)
            /\ inBatch' = FALSE
            /\ UNCHANGED waiting
       ELSE /\ waiting' = IF Button_handle_event("agree_button", event) THEN FALSE ELSE waiting
            /\ inBatch' = TRUE
            /\ UNCHANGED pc
    /\ UNCHANGED <<sessionVars, stageVars>>

\* ConsentScreen.run returns True; Experiment.run, line 927
ConsentReturn ==
    /\ pc = "consent" /\ ~inBatch /\ ~waiting
    /\ pc' = AfterConsent(TRUE)
    /\ waiting' = TRUE
    /\ UNCHANGED <<inBatch, sessionVars, stageVars>>

InInstructions == pc \in {"instr_training", "instr_main", "instr_green", "instr_return"}

\* InstructionScreen.show, lines 837-844: one event other than QUIT
InstructionEvent(event) ==
    /\ InInstructions
    /\ inBatch \/ waiting
    /\ inBatch' = TRUE
    /\ waiting' = IF event.type = "KEYDOWN" /\ event.key = "K_SPACE" THEN FALSE ELSE waiting
    /\ UNCHANGED <<pc, sessionVars, stageVars>>

\* mutant: the training instructions are shown again and training never starts
StartTraining_showsAgain ==
    /\ pc = "instr_training" /\ ~inBatch /\ ~waiting
    /\ waiting' = TRUE
    /\ UNCHANGED <<pc, inBatch, sessionVars, stageVars>>

\* show('training') returns; _run_training constructs the first trial
StartTraining ==
    /\ pc = "instr_training" /\ ~inBatch /\ ~waiting
    /\ pc' = "training"
    /\ trial_num' = 1
    /\ TrainingTrial_init
    /\ UNCHANGED <<data, exported, stageVars>>

\* TrainingTrial.run, lines 284-296: one event other than QUIT
TrainingEvent(event) ==
    /\ pc = "training"
    /\ inBatch \/ waiting
    /\ inBatch' = TRUE
    /\ IF Button_handle_event("button_a", event) \/ Button_handle_event("button_b", event)
       THEN LET chosen == IF Button_handle_event("button_a", event) THEN "A" ELSE "B"
            IN  /\ trial' = [trial EXCEPT !.result = IF trial.true_urn = chosen
                                                     THEN "correct" ELSE "incorrect"]
                /\ waiting' = FALSE
       ELSE UNCHANGED <<trial, waiting>>
    /\ UNCHANGED <<pc, data, exported, trial_num, stageVars>>

\* TrainingTrial.run, line 334: the choice loop is over, the feedback is shown
ShowFeedback ==
    /\ pc = "training" /\ ~inBatch /\ ~waiting
    /\ pc' = "feedback"
    /\ UNCHANGED <<inBatch, waiting, sessionVars, stageVars>>

\* mutant: every result is logged as trial 1
add_training_trial_unnumbered(n, result) ==
    [data EXCEPT !.training_trials = Append(@, [trial |-> 1, result |-> result])]

\* DataCollector.add_training_trial
add_training_trial(n, result) ==
    [data EXCEPT !.training_trials = Append(@, [trial |-> n, result |-> result])]

\* _show_feedback is over, run returns; _run_training, lines 962-965 (the last trial
\* object is dropped when _run_training returns)
NextTrainingTrial ==
    /\ pc = "feedback"
    /\ data' = add_training_trial(trial_num, trial.result)
    /\ IF trial_num < num_training_trials
       THEN /\ trial_num' = trial_num + 1
            /\ TrainingTrial_init
            /\ pc' = "training"
       ELSE /\ pc' = "instr_main"
            /\ waiting' = TRUE
            /\ inBatch' = FALSE
            /\ trial' = NoTrial
            /\ UNCHANGED trial_num
    /\ UNCHANGED <<exported, stageVars>>

\* Experiment.run, lines 931-935: stage 1 is constructed and run
StartStage1 ==
    /\ pc = "instr_main" /\ ~inBatch /\ ~waiting
    /\ pc' = "stage1"
    /\ \E p \in JarProbabilities : MainExperimentStage_init("red", Stage1Trials, p, 0)
    /\ UNCHANGED sessionVars

\* mutant: the green jar is left out
Stage1Return_skipsGreen ==
    /\ pc = "stage1" /\ RunReturns
    /\ data' = add_stage_data("red_jar_stage1", ReturnedData)
    /\ pc' = "instr_return"
    /\ waiting' = TRUE
    /\ spc' = "returned"
    /\ UNCHANGED <<inBatch, exported, trial_num, trial, heap, lists, jar_color, num_trials,
                   urn_probability, current_trial, waiting_for_draw, waiting_for_estimate,
                   need_initial_estimate, estimate_input, confidence_input, previous,
                   lastOp, signal,
                   refused>>

\* Experiment.run, lines 935-939: stage 1 returns its data
Stage1Return ==
    /\ pc = "stage1" /\ RunReturns
    /\ data' = add_stage_data("red_jar_stage1", ReturnedData)
    /\ pc' = "instr_green"
    /\ waiting' = TRUE
    /\ spc' = "returned"
    /\ UNCHANGED <<inBatch, exported, trial_num, trial, heap, lists, jar_color, num_trials,
                   urn_probability, current_trial, waiting_for_draw, waiting_for_estimate,
                   need_initial_estimate, estimate_input, confidence_input, previous,
                   lastOp, signal,
                   refused>>

\* Experiment.run, lines 939-941: stage 2 is constructed and run
StartStage2 ==
    /\ pc = "instr_green" /\ ~inBatch /\ ~waiting
    /\ pc' = "stage2"
    /\ \E p \in JarProbabilities : MainExperimentStage_init("green", Stage2Trials, p, 0)
    /\ UNCHANGED sessionVars

\* Experiment.run, lines 941-945: stage 2 returns its data
Stage2Return ==
    /\ pc = "stage2" /\ RunReturns
    /\ data' = add_stage_data("green_jar_stage2", ReturnedData)
    /\ pc' = "instr_return"
    /\ waiting' = TRUE
    /\ spc' = "returned"
    /\ UNCHANGED <<inBatch, exported, trial_num, trial, heap, lists, jar_color, num_trials,
                   urn_probability, current_trial, waiting_for_draw, waiting_for_estimate,
                   need_initial_estimate, estimate_input, confidence_input, previous,
                   lastOp, signal,
                   refused>>

\* mutant: stage 3 is given a jar of its own
StartStage3_otherJar ==
    /\ pc = "instr_return" /\ ~inBatch /\ ~waiting
    /\ pc' = "stage3"
    /\ MainExperimentStage_init("red", Stage3Trials,
                                100 - data.red_jar_stage1.true_probability,
                                data.red_jar_stage1.ref)
    /\ UNCHANGED sessionVars

\* Experiment.run, lines 945-949: stage 3 is constructed from red_data and run
StartStage3 ==
    /\ pc = "instr_return" /\ ~inBatch /\ ~waiting
    /\ pc' = "stage3"
    /\ MainExperimentStage_init("red", Stage3Trials, data.red_jar_stage1.true_probability,
                                data.red_jar_stage1.ref)
    /\ UNCHANGED sessionVars

\* Experiment.run, lines 949-950: stage 3 returns its data
Stage3Return ==
    /\ pc = "stage3" /\ RunReturns
    /\ data' = add_stage_data("red_jar_stage3", ReturnedData)
    /\ pc' = "export"
    /\ spc' = "returned"
    /\ UNCHANGED <<inBatch, waiting, exported, trial_num, trial, heap, lists, jar_color,
                   num_trials, urn_probability, current_trial, waiting_for_draw,
                   waiting_for_estimate, need_initial_estimate, estimate_input,
                   confidence_input, previous, lastOp, signal,
                   refused>>

(***************************************************************************)
(* DataCollector.export: the JSON file holds self.data (the lists read     *)
(* through the references the record holds), the CSV file one row per      *)
(* recorded sample of every stage that has data.                           *)
(***************************************************************************)
ParticipantId == "P1"

\* '' in a CSV cell
Blank == <<"">>

StageNames == <<"red_jar_stage1", "green_jar_stage2", "red_jar_stage3">>

\* json.dump of one stage's entry (null while the stage has not returned)
StageJson(stage_data) ==
    IF stage_data = NoStageData
    THEN [null |-> TRUE, samples |-> <<>>, estimates |-> <<>>, confidences |-> <<>>,
          true_probability |-> 0 - 1]
    ELSE [null |-> FALSE,
          samples |-> heap[stage_data.ref].samples,
          estimates |-> heap[stage_data.ref].estimates,
          confidences |-> heap[stage_data.ref].confidences,
          true_probability |-> stage_data.true_probability]

JsonBlob ==
    [participant_id |-> ParticipantId,
     training_trials |-> data.training_trials,
     red_jar_stage1 |-> StageJson(data.red_jar_stage1),
     green_jar_stage2 |-> StageJson(data.green_jar_stage2),
     red_jar_stage3 |-> StageJson(data.red_jar_stage3)]

\* mutant: every sample counts as black
cumulative_black_all(samples, n) == n

\* export, lines 681-685: cumulative_black after the first n samples
RECURSIVE cumulative_black(_, _)
cumulative_black(samples, n) ==
    IF n = 0 THEN 0
    ELSE cumulative_black(samples, n - 1) + (IF samples[n] = "black" THEN 1 ELSE 0)

\* export, lines 677-701: the rows of one stage
StageRows(stage_name) ==
    LET stage_data == StageJson(data[stage_name])
    IN  IF stage_data.null THEN <<>>
        ELSE [i \in 1..Len(stage_data.samples) |->
                [participant_id |-> ParticipantId,
                 stage |-> IF stage_name = "red_jar_stage1" THEN "stage1"
                           ELSE IF stage_name = "green_jar_stage2" THEN "stage2"
                           ELSE "stage3",
                 jar_color |-> IF stage_name = "green_jar_stage2" THEN "green" ELSE "red",
                 trial |-> i,
                 sample_color |-> stage_data.samples[i],
                 cumulative_black |-> cumulative_black(stage_data.samples, i),
                 cumulative_total |-> i,
                 probability_estimate |-> IF i <= Len(stage_data.estimates)
                                          THEN stage_data.estimates[i] ELSE Blank,
                 confidence |-> IF i <= Len(stage_data.confidences)
                                THEN stage_data.confidences[i] ELSE Blank,
                 true_probability |-> stage_data.true_probability]]

CsvRows == StageRows(StageNames[1]) \o StageRows(StageNames[2]) \o StageRows(StageNames[3])

\* Experiment.run, line 953
Export ==
    /\ pc = "export"
    /\ exported' = Append(exported, [json |-> JsonBlob, csv |-> CsvRows])
    /\ pc' = "thank_you"
    /\ waiting' = TRUE
    /\ UNCHANGED <<inBatch, data, trial_num, trial, stageVars>>

\* _show_thank_you, lines 972-978: QUIT or any key closes the screen
ThankYouEvent(event) ==
    /\ pc = "thank_you"
    /\ inBatch \/ waiting
    /\ inBatch' = TRUE
    /\ waiting' = IF event.type \in {"QUIT", "KEYDOWN"} THEN FALSE ELSE waiting
    /\ UNCHANGED <<pc, sessionVars, stageVars>>

\* _show_thank_you, lines 980-982: five seconds have passed
ThankYouTimeout ==
    /\ pc = "thank_you" /\ waiting
    /\ waiting' = FALSE
    /\ inBatch' = FALSE
    /\ UNCHANGED <<pc, sessionVars, stageVars>>

\* _show_thank_you returns, Experiment.run returns, main calls pygame.quit()
Finish ==
    /\ pc = "thank_you" /\ ~inBatch /\ ~waiting
    /\ pc' = "done"
    /\ UNCHANGED <<inBatch, waiting, sessionVars, stageVars>>

\* pygame.QUIT in the instruction, training and feedback screens: sys.exit()
SessionQuit ==
    /\ \/ InInstructions /\ (inBatch \/ waiting)
       \/ pc = "training" /\ (inBatch \/ waiting)
       \/ pc = "feedback"
    /\ pc' = "exited"
    /\ inBatch' = FALSE
    /\ UNCHANGED <<waiting, sessionVars, stageVars>>

ConsentEvents ==
    {QuitEvent, SpaceEvent, ClickEvent("agree_button"), ClickEvent("decline_button"),
     ClickEvent("elsewhere")}

InstructionEvents == {SpaceEvent, ReturnEvent, ClickEvent("elsewhere")}

TrainingEvents == {SpaceEvent} \cup { ClickEvent(at) : at \in TrainingClicks }

ThankYouEvents == {QuitEvent, SpaceEvent, ClickEvent("elsewhere")}

Init ==
    /\ pc = "consent"
    /\ inBatch = FALSE
    /\ waiting = TRUE
    /\ data = [training_trials |-> <<>>, red_jar_stage1 |-> NoStageData,
               green_jar_stage2 |-> NoStageData, red_jar_stage3 |-> NoStageData]
    /\ exported = <<>>
    /\ trial_num = 0
    /\ trial = NoTrial
    /\ heap = <<>>
    /\ lists = 0
    /\ jar_color = "None"
    /\ num_trials = 0
    /\ urn_probability = 0
    /\ current_trial = 0
    /\ waiting_for_draw = FALSE
    /\ waiting_for_estimate = FALSE
    /\ need_initial_estimate = FALSE
    /\ estimate_input = EmptyBox
    /\ confidence_input = EmptyBox
    /\ spc = "none"
    /\ previous = NoPrevious
    /\ lastOp = "none"
    /\ signal = "none"
    /\ refused = FALSE
    /\ experiment_data = NoSessions
    /\ response = NoResponse

DesktopNext ==
    \/ \E event \in ConsentEvents : ConsentEvent(event)
    \/ ConsentReturn
    \/ \E event \in InstructionEvents : InstructionEvent(event)
    \/ StartTraining
    \/ \E event \in TrainingEvents : TrainingEvent(event)
    \/ ShowFeedback
    \/ NextTrainingTrial
    \/ StartStage1
    \/ Stage1Return
    \/ StartStage2
    \/ Stage2Return
    \/ StartStage3
    \/ Stage3Return
    \/ Export
    \/ \E event \in ThankYouEvents : ThankYouEvent(event)
    \/ ThankYouTimeout
    \/ Finish
    \/ SessionQuit
    \/ StageNext

Next == DesktopNext /\ UNCHANGED httpVars

\* one session of the desktop experiment
Spec == Init /\ [][Next]_vars

\* the steps the program takes by itself: the for loop over one batch of events
\* ends, a screen's loop whose condition has become false is left, the next
\* statement of Experiment.run is executed, the thank-you screen times out
ProgramStep ==
    /\ \/ ConsentReturn
       \/ StartTraining
       \/ ShowFeedback
       \/ NextTrainingTrial
       \/ StartStage1
       \/ InitialEstimateReturn
       \/ Stage1Return
       \/ StartStage2
       \/ Stage2Return
       \/ StartStage3
       \/ Stage3Return
       \/ Export
       \/ ThankYouTimeout
       \/ Finish
    /\ UNCHANGED httpVars

\* one session of the desktop experiment in which the interpreter keeps running:
\* a batch of events is finite, and a statement that can be executed is executed
SpecLive ==
    /\ Init
    /\ [][Next]_vars
    /\ WF_vars(EndBatch /\ UNCHANGED httpVars)
    /\ WF_vars(ProgramStep)

(***************************************************************************)
(* app.py: the HTTP handlers, one action per request.  A participant id of *)
(* "" stands for a missing or empty id.                                    *)
(***************************************************************************)
\* most items (trial records and training results) the store is followed to
MaxStored == 2

HttpStages == {"red_jar_stage1", "green_jar_stage2", "red_jar_stage3"}
\* the server is driven by any request but an export ("http"), by one client that
\* fills the stages ("httpfill"), by one client that submits and exports
\* ("httpexport") or by two clients with every kind of request ("httpall")
InHttp == pc \in {"http", "httpfill", "httpexport", "httpall"}

RequestIds ==
    IF pc \in {"http", "httpall"} THEN Participants \cup {""}
    ELSE IF pc = "httpexport" THEN {"P1", ""} ELSE {"P1"}
RequestStages == IF pc = "http" THEN HttpStages \cup {"no_such_stage"} ELSE HttpStages
HttpProbabilities ==
    IF pc \in {"httpfill", "httpall"} THEN { <<30, 70>> } ELSE { <<30, 70>>, <<70, 30>> }
\* the trials submitted: <<ball_color, estimate, confidence>>
HttpTrials ==
    IF pc = "http"
    THEN { <<"black", 50, 5>>, <<"white", 101, 5>>, <<"white", 50, 11>> }
    ELSE IF pc = "httpexport"
    THEN { <<"black", 50, 5>>, <<"white", 60, 6>> }
    ELSE { <<"black", 50, 5>> }
\* the number of trials the client runs in a stage
TrialCount(stage) ==
    IF stage = "red_jar_stage1" THEN Stage1Trials
    ELSE IF stage = "green_jar_stage2" THEN Stage2Trials ELSE Stage3Trials
HttpResults == IF pc = "httpall" THEN {"correct"} ELSE {"correct", "incorrect"}

\* mutant: every participant the server could hold counts as known
UnknownParticipant_never(participant_id) == participant_id \notin Participants

\* `participant_id not in experiment_data`
UnknownParticipant(participant_id) ==
    participant_id \notin Participants \/ ~experiment_data[participant_id].present

\* the items the store holds
RECURSIVE Stored(_)
Stored(ps) ==
    IF ps = {} THEN 0
    ELSE LET p == CHOOSE q \in ps : TRUE
             session == experiment_data[p]
         IN  Len(session.training_trials) + Len(session.red_jar_stage1.samples)
               + Len(session.green_jar_stage2.samples)
               + Len(session.red_jar_stage3.samples) + Stored(ps \ {p})

\* the requests followed: the store is kept small, or every stage is filled to
\* MaxOver trials beyond its trial count
StoreOpen(participant_id, stage) ==
    IF pc = "httpfill"
    THEN Len(experiment_data[participant_id][stage].samples) < TrialCount(stage) + MaxOver
    ELSE Stored(Participants) < MaxStored

\* start_experiment, lines 23-63
start_experiment(participant_id, red_jar_prob, green_jar_prob) ==
    /\ InHttp
    /\ IF participant_id = ""
       THEN /\ response' = Response(400, "Participant ID required", NoBody)
            /\ UNCHANGED experiment_data
       ELSE /\ experiment_data' =
                  [experiment_data EXCEPT ![participant_id] =
                      [present |-> TRUE,
                       red_jar_probability |-> red_jar_prob,
                       green_jar_probability |-> green_jar_prob,
                       training_trials |-> <<>>,
                       red_jar_stage1 |-> EmptyLists,
                       green_jar_stage2 |-> EmptyLists,
                       red_jar_stage3 |-> EmptyLists]]
            /\ response' = Response(200, "", [success |-> TRUE, participant_id |-> participant_id])
    /\ UNCHANGED desktopVars

\* draw_ball, lines 65-86, with random.random() = r
draw_ball(participant_id, jar_type, r) ==
    /\ InHttp
    /\ IF UnknownParticipant(participant_id)
       THEN response' = Response(400, "Invalid participant ID", NoBody)
       ELSE LET probability ==
                    IF jar_type = "red"
                    THEN experiment_data[participant_id].red_jar_probability
                    ELSE experiment_data[participant_id].green_jar_probability
            IN  response' = Response(200, "", [ball_color |-> Urn_draw_ball(probability, r)])
    /\ UNCHANGED <<experiment_data, desktopVars>>

\* mutant: the confidence is not stored
submit_trial_dropsConfidence(participant_id, stage, ball_color, estimate, confidence) ==
    /\ InHttp
    /\ IF UnknownParticipant(participant_id)
       THEN /\ response' = Response(400, "Invalid participant ID", NoBody)
            /\ UNCHANGED experiment_data
       ELSE IF stage \notin HttpStages
       THEN \* experiment_data[participant_id][stage] raises: an unhandled exception
            /\ response' = Response(500, "KeyError", NoBody)
            /\ UNCHANGED experiment_data
       ELSE /\ StoreOpen(participant_id, stage)
            /\ experiment_data' =
                  [experiment_data EXCEPT
                      ![participant_id][stage].samples = Append(@, ball_color),
                      ![participant_id][stage].estimates = Append(@, estimate)]
            /\ response' = Response(200, "", Success)
    /\ UNCHANGED desktopVars

\* submit_trial, lines 88-106
submit_trial(participant_id, stage, ball_color, estimate, confidence) ==
    /\ InHttp
    /\ IF UnknownParticipant(participant_id)
       THEN /\ response' = Response(400, "Invalid participant ID", NoBody)
            /\ UNCHANGED experiment_data
       ELSE IF stage \notin HttpStages
       THEN \* experiment_data[participant_id][stage] raises: an unhandled exception
            /\ response' = Response(500, "KeyError", NoBody)
            /\ UNCHANGED experiment_data
       ELSE /\ StoreOpen(participant_id, stage)
            /\ experiment_data' =
                  [experiment_data EXCEPT
                      ![participant_id][stage].samples = Append(@, ball_color),
                      ![participant_id][stage].estimates = Append(@, estimate),
                      ![participant_id][stage].confidences = Append(@, confidence)]
            /\ response' = Response(200, "", Success)
    /\ UNCHANGED desktopVars

\* mutant: one list of training results serves every session
submit_training_shared(participant_id, n, result) ==
    /\ InHttp
    /\ IF UnknownParticipant(participant_id)
       THEN /\ response' = Response(400, "Invalid participant ID", NoBody)
            /\ UNCHANGED experiment_data
       ELSE /\ Stored(Participants) < MaxStored
            /\ experiment_data' =
                  [p \in Participants |->
                      IF experiment_data[p].present
                      THEN [experiment_data[p] EXCEPT !.training_trials =
                               Append(@, [trial |-> n, result |-> result])]
                      ELSE experiment_data[p]]
            /\ response' = Response(200, "", Success)
    /\ UNCHANGED desktopVars

\* submit_training, lines 108-124
submit_training(participant_id, n, result) ==
    /\ InHttp
    /\ IF UnknownParticipant(participant_id)
       THEN /\ response' = Response(400, "Invalid participant ID", NoBody)
            /\ UNCHANGED experiment_data
       ELSE /\ Stored(Participants) < MaxStored
            /\ experiment_data' =
                  [experiment_data EXCEPT ![participant_id].training_trials =
                      Append(@, [trial |-> n, result |-> result])]
            /\ response' = Response(200, "", Success)
    /\ UNCHANGED desktopVars

\* get_stage_data, lines 126-142
get_stage_data(participant_id, stage) ==
    /\ InHttp
    /\ IF UnknownParticipant(participant_id)
       THEN response' = Response(400, "Invalid participant ID", NoBody)
       ELSE IF stage \notin HttpStages
       THEN response' = Response(500, "KeyError", NoBody)
       ELSE response' = Response(200, "", experiment_data[participant_id][stage])
    /\ UNCHANGED <<experiment_data, desktopVars>>

\* export_data, line 179: the probability written in the rows of a jar
true_prob(participant_data, jar) ==
    IF jar = "red" THEN participant_data.red_jar_probability
    ELSE participant_data.green_jar_probability

\* export_data, lines 175-194: the rows of one stage
HttpStageRows(participant_id, stage_name) ==
    LET participant_data == experiment_data[participant_id]
        stage_data == participant_data[stage_name]
        jar == IF stage_name = "green_jar_stage2" THEN "green" ELSE "red"
    IN  [i \in 1..Len(stage_data.samples) |->
            [participant_id |-> participant_id,
             stage |-> IF stage_name = "red_jar_stage1" THEN "stage1"
                       ELSE IF stage_name = "green_jar_stage2" THEN "stage2"
                       ELSE "stage3",
             jar_color |-> jar,
             trial |-> i,
             sample_color |-> stage_data.samples[i],
             cumulative_black |-> cumulative_black(stage_data.samples, i),
             cumulative_total |-> i,
             probability_estimate |-> IF i <= Len(stage_data.estimates)
                                      THEN stage_data.estimates[i] ELSE Blank,
             confidence |-> IF i <= Len(stage_data.confidences)
                            THEN stage_data.confidences[i] ELSE Blank,
             true_probability |-> true_prob(participant_data, jar)]]

\* mutant: the CSV file is appended to, not rewritten
HttpFiles_appending(participant_id) ==
    [json |-> experiment_data[participant_id],
     csv |-> (IF exported = <<>> THEN <<>> ELSE exported[1].csv)
                \o HttpStageRows(participant_id, StageNames[1])
                \o HttpStageRows(participant_id, StageNames[2])
                \o HttpStageRows(participant_id, StageNames[3])]

\* export_data, lines 160-194: the JSON file holds the session, the CSV file its rows
HttpFiles(participant_id) ==
    [json |-> experiment_data[participant_id],
     csv |-> HttpStageRows(participant_id, StageNames[1])
                \o HttpStageRows(participant_id, StageNames[2])
                \o HttpStageRows(participant_id, StageNames[3])]

\* export_data, lines 196-200: the body names the two files written
Exported(participant_id) ==
    [success |-> TRUE, json_file |-> <<participant_id, "json">>,
     csv_file |-> <<participant_id, "csv">>]

\* export_data, lines 144-200; exported holds the two files the request wrote
export_data(participant_id) ==
    /\ InHttp
    /\ IF UnknownParticipant(participant_id)
       THEN /\ response' = Response(400, "Invalid participant ID", NoBody)
            /\ UNCHANGED exported
       ELSE /\ exported' = <<HttpFiles(participant_id)>>
            /\ response' = Response(200, "", Exported(participant_id))
    /\ UNCHANGED <<experiment_data, pc, inBatch, waiting, data, trial_num, trial,
                   stageVars>>

HttpInit ==
    /\ pc = "http"
    /\ inBatch = FALSE
    /\ waiting = FALSE
    /\ data = [training_trials |-> <<>>, red_jar_stage1 |-> NoStageData,
               green_jar_stage2 |-> NoStageData, red_jar_stage3 |-> NoStageData]
    /\ exported = <<>>
    /\ trial_num = 0
    /\ trial = NoTrial
    /\ heap = <<>>
    /\ lists = 0
    /\ jar_color = "None"
    /\ num_trials = 0
    /\ urn_probability = 0
    /\ current_trial = 0
    /\ waiting_for_draw = FALSE
    /\ waiting_for_estimate = FALSE
    /\ need_initial_estimate = FALSE
    /\ estimate_input = EmptyBox
    /\ confidence_input = EmptyBox
    /\ spc = "none"
    /\ previous = NoPrevious
    /\ lastOp = "none"
    /\ signal = "none"
    /\ refused = FALSE
    /\ experiment_data = NoSessions
    /\ response = NoResponse

HttpNext ==
    \/ \E id \in RequestIds : \E probs \in HttpProbabilities :
          start_experiment(id, probs[1], probs[2])
    \/ \E id \in RequestIds : \E jar_type \in {"red", "green"} : \E r \in HarnessRandoms :
          draw_ball(id, jar_type, r)
    \/ \E id \in RequestIds : \E stage \in RequestStages : \E t \in HttpTrials :
          submit_trial(id, stage, t[1], t[2], t[3])
    \/ \E id \in RequestIds : \E result \in HttpResults :
          submit_training(id, Len(experiment_data[id].training_trials) + 1, result)
    \/ \E id \in RequestIds : \E stage \in RequestStages : get_stage_data(id, stage)

\* the HTTP server, requests handled one at a time
SpecHttp == HttpInit /\ [][HttpNext]_vars

(***************************************************************************)
(* One client that starts its session and submits trial after trial.       *)
(***************************************************************************)
FillInit ==
    /\ pc = "httpfill"
    /\ inBatch = FALSE
    /\ waiting = FALSE
    /\ data = [training_trials |-> <<>>, red_jar_stage1 |-> NoStageData,
               green_jar_stage2 |-> NoStageData, red_jar_stage3 |-> NoStageData]
    /\ exported = <<>>
    /\ trial_num = 0
    /\ trial = NoTrial
    /\ heap = <<>>
    /\ lists = 0
    /\ jar_color = "None"
    /\ num_trials = 0
    /\ urn_probability = 0
    /\ current_trial = 0
    /\ waiting_for_draw = FALSE
    /\ waiting_for_estimate = FALSE
    /\ need_initial_estimate = FALSE
    /\ estimate_input = EmptyBox
    /\ confidence_input = EmptyBox
    /\ spc = "none"
    /\ previous = NoPrevious
    /\ lastOp = "none"
    /\ signal = "none"
    /\ refused = FALSE
    /\ experiment_data = NoSessions
    /\ response = NoResponse

FillNext ==
    \/ \E id \in RequestIds : \E probs \in HttpProbabilities :
          start_experiment(id, probs[1], probs[2])
    \/ \E id \in RequestIds : \E stage \in RequestStages : \E t \in HttpTrials :
          submit_trial(id, stage, t[1], t[2], t[3])

SpecHttpFill == FillInit /\ [][FillNext]_vars

(***************************************************************************)
(* One client that starts its session, submits trials and exports.         *)
(***************************************************************************)
HttpExportInit ==
    /\ pc = "httpexport"
    /\ inBatch = FALSE
    /\ waiting = FALSE
    /\ data = [training_trials |-> <<>>, red_jar_stage1 |-> NoStageData,
               green_jar_stage2 |-> NoStageData, red_jar_stage3 |-> NoStageData]
    /\ exported = <<>>
    /\ trial_num = 0
    /\ trial = NoTrial
    /\ heap = <<>>
    /\ lists = 0
    /\ jar_color = "None"
    /\ num_trials = 0
    /\ urn_probability = 0
    /\ current_trial = 0
    /\ waiting_for_draw = FALSE
    /\ waiting_for_estimate = FALSE
    /\ need_initial_estimate = FALSE
    /\ estimate_input = EmptyBox
    /\ confidence_input = EmptyBox
    /\ spc = "none"
    /\ previous = NoPrevious
    /\ lastOp = "none"
    /\ signal = "none"
    /\ refused = FALSE
    /\ experiment_data = NoSessions
    /\ response = NoResponse

HttpExportNext ==
    \/ \E id \in RequestIds : \E probs \in HttpProbabilities :
          start_experiment(id, probs[1], probs[2])
    \/ \E id \in RequestIds : \E stage \in RequestStages : \E t \in HttpTrials :
          submit_trial(id, stage, t[1], t[2], t[3])
    \/ \E id \in RequestIds : export_data(id)

SpecHttpExport == HttpExportInit /\ [][HttpExportNext]_vars

\* the experiment in either variant: one desktop session, or one client of the server
SpecExperiment == (Init \/ HttpExportInit) /\ [][Next \/ HttpExportNext]_vars

(***************************************************************************)
(* Two clients, with every kind of request.                                *)
(***************************************************************************)
HttpAllInit ==
    /\ pc = "httpall"
    /\ inBatch = FALSE
    /\ waiting = FALSE
    /\ data = [training_trials |-> <<>>, red_jar_stage1 |-> NoStageData,
               green_jar_stage2 |-> NoStageData, red_jar_stage3 |-> NoStageData]
    /\ exported = <<>>
    /\ trial_num = 0
    /\ trial = NoTrial
    /\ heap = <<>>
    /\ lists = 0
    /\ jar_color = "None"
    /\ num_trials = 0
    /\ urn_probability = 0
    /\ current_trial = 0
    /\ waiting_for_draw = FALSE
    /\ waiting_for_estimate = FALSE
    /\ need_initial_estimate = FALSE
    /\ estimate_input = EmptyBox
    /\ confidence_input = EmptyBox
    /\ spc = "none"
    /\ previous = NoPrevious
    /\ lastOp = "none"
    /\ signal = "none"
    /\ refused = FALSE
    /\ experiment_data = NoSessions
    /\ response = NoResponse

HttpAllNext ==
    \/ \E id \in RequestIds : \E probs \in HttpProbabilities :
          start_experiment(id, probs[1], probs[2])
    \/ \E id \in RequestIds : \E jar_type \in {"red", "green"} : \E r \in HarnessRandoms :
          draw_ball(id, jar_type, r)
    \/ \E id \in RequestIds : \E stage \in RequestStages : \E t \in HttpTrials :
          submit_trial(id, stage, t[1], t[2], t[3])
    \/ \E id \in RequestIds : \E result \in HttpResults :
          submit_training(id, Len(experiment_data[id].training_trials) + 1, result)
    \/ \E id \in RequestIds : \E stage \in RequestStages : get_stage_data(id, stage)
    \/ \E id \in RequestIds : export_data(id)

SpecHttpAll == HttpAllInit /\ [][HttpAllNext]_vars

(***************************************************************************)
(* The claims.                                                             *)
(***************************************************************************)
\* the phase of the session: 1 consent, 2 training, 3 stage 1, 4 stage 2, 5 stage 3,
\* 6 export, 7 done; 0 once the session was declined or the window closed
Phase ==
    IF pc = "consent" THEN 1
    ELSE IF pc \in {"instr_training", "training", "feedback"} THEN 2
    ELSE IF pc \in {"instr_main", "stage1"} THEN 3
    ELSE IF pc \in {"instr_green", "stage2"} THEN 4
    ELSE IF pc \in {"instr_return", "stage3"} THEN 5
    ELSE IF pc = "export" THEN 6
    ELSE IF pc \in {"thank_you", "done"} THEN 7
    ELSE 0

\* C1 (as claimed): stage 3 of a session is complete only when the combined history
\* holds 70 answered trials, stage 1's 40 and 30 new ones.
C1_Stage3CompleteAt70 ==
    (pc = "stage3" /\ spc = "loop" /\ ~StageGoesOn)
        => Len(Confidences) = Stage1Trials + Stage3Trials

\* C2: in every state of a stage constructed with previous_data, the samples,
\* estimates and confidences that previous_data held are a prefix of the stage's
\* samples, estimates and confidences.
C2_ResumedKeepsPrevious ==
    (InStage /\ previous.given)
        => /\ IsPrefix(previous.samples, Samples)
           /\ IsPrefix(previous.estimates, Estimates)
           /\ IsPrefix(previous.confidences, Confidences)

\* a resumed stage has drawn and has accepted a response of its own
C2_Witness ==
    /\ pc = "harness" /\ previous.given
    /\ Len(Samples) > Len(previous.samples)
    /\ Len(Confidences) > Len(previous.confidences)
    /\ Len(previous.confidences) > 0

\* C3 (as claimed): a fresh stage never holds more than num_trials samples.
C3_NeverMoreThanNumTrials ==
    (InStage /\ ~previous.given) => Len(Samples) <= num_trials

\* C4: within one stage a ball is drawn only at the start or after an accepted
\* response, and a response is accepted only after a draw.
C4_DrawsAndResponsesAlternate ==
    [][ (InStage /\ lists' = lists)
          => /\ Len(Samples') > Len(Samples)
                  => (lastOp \in {"none", "response"} /\ lastOp' = "draw")
             /\ Len(Confidences') > Len(Confidences)
                  => (lastOp = "draw" /\ lastOp' = "response") ]_vars

\* a second ball has been drawn, after the response to the first
C4_Witness == pc = "harness" /\ lastOp = "draw" /\ Len(Confidences) >= 1

C6_PhasesInOrder ==
    [][ Phase' # Phase => (Phase # 0 /\ (Phase' = Phase + 1 \/ Phase' = 0)) ]_vars

\* the session has gone through every phase
C6_Witness == pc = "done" /\ Len(exported) = 1

\* C7: stage 1 is under way only with exactly 10 training results logged, stage 2
\* only with at least 40 answered trials in stage 1, stage 3 only with at least 30
\* answered trials in stage 2, and export only after stage 3's run has returned.
C7_NextPhaseOnlyWhenComplete ==
    /\ Phase >= 3 => Len(data.training_trials) = num_training_trials
    /\ Phase >= 4
          => /\ data.red_jar_stage1 # NoStageData
             /\ Len(heap[data.red_jar_stage1.ref].samples) >= Stage1Trials
             /\ Len(heap[data.red_jar_stage1.ref].confidences) >= Stage1Trials
    /\ Phase >= 5
          => /\ data.green_jar_stage2 # NoStageData
             /\ Len(heap[data.green_jar_stage2.ref].samples) >= Stage2Trials
             /\ Len(heap[data.green_jar_stage2.ref].confidences) >= Stage2Trials
    /\ Phase >= 6
          => /\ data.red_jar_stage3 # NoStageData
             /\ spc = "returned" /\ jar_color = "red" /\ current_trial >= num_trials

\* the session stands at export
C7_Witness == pc = "export" /\ Len(data.training_trials) = num_training_trials

\* C8: a Decline click or a closed window at the consent screen ends the session
\* there; a declined session stays declined and holds no training result, no stage
\* data and no export.
C8_DeclineEndsSession ==
    /\ [][ (\E event \in {QuitEvent, ClickEvent("decline_button")} : ConsentEvent(event))
             => pc' = "declined" ]_vars
    /\ [][ pc = "declined" => pc' = "declined" ]_vars
    /\ [](pc = "declined"
            => /\ data.training_trials = <<>>
               /\ data.red_jar_stage1 = NoStageData
               /\ data.green_jar_stage2 = NoStageData
               /\ data.red_jar_stage3 = NoStageData
               /\ heap = <<>> /\ spc = "none"
               /\ exported = <<>>)

\* consent was refused after the Agree button had been clicked in the same batch
C8_Witness == pc = "declined" /\ ~waiting

\* C9: a Submit click while the stage awaits a response appends the estimate and the
\* confidence and counts the trial if both are numbers in range (0 and 100, 0 and 10
\* included); otherwise it appends nothing, leaves the trial counter and the stage
\* goes on awaiting the response.
C9_ResponseValidated ==
    [][ (InStage /\ waiting_for_estimate /\ RunEvent(ClickEvent("submit_button")))
          => IF LET e == Float(estimate_input.text)
                    c == Float(confidence_input.text)
                IN  /\ e # None /\ 0 <= e[1] /\ e[1] <= 100 * e[2]
                    /\ c # None /\ 0 <= c[1] /\ c[1] <= 10 * c[2]
             THEN /\ Estimates' = Append(Estimates, Float(estimate_input.text))
                  /\ Confidences' = Append(Confidences, Float(confidence_input.text))
                  /\ current_trial' = current_trial + 1
                  /\ waiting_for_draw' /\ ~waiting_for_estimate'
             ELSE /\ heap' = heap
                  /\ current_trial' = current_trial
                  /\ waiting_for_estimate' /\ ~waiting_for_draw' ]_vars

\* Submit was clicked on an estimate of 101 with a confidence of 10
C9_Witness ==
    /\ pc = "form" /\ spc = "loop" /\ inBatch /\ waiting_for_estimate
    /\ estimate_input = [text |-> <<"1", "0", "1">>, active |-> FALSE]
    /\ confidence_input = [text |-> <<"1", "0">>, active |-> FALSE]
    /\ Len(Confidences) = 0

\* C10 (as claimed): every estimate the store holds lies in [0, 100] and every
\* confidence in [0, 10].
C10_StoredValuesInRange ==
    \A p \in Participants : \A stage \in HttpStages :
        LET held == experiment_data[p][stage]
        IN  /\ \A i \in 1..Len(held.estimates) :
                  0 <= held.estimates[i] /\ held.estimates[i] <= 100
            /\ \A i \in 1..Len(held.confidences) :
                  0 <= held.confidences[i] /\ held.confidences[i] <= 10

\* C11 (as claimed): no stage of a session holds more trials than its trial count
\* (stage 3 is allowed stage 1's trials besides its own).
C11_NoStageOverfilled ==
    \A p \in Participants :
        /\ Len(experiment_data[p].red_jar_stage1.samples) <= Stage1Trials
        /\ Len(experiment_data[p].green_jar_stage2.samples) <= Stage2Trials
        /\ Len(experiment_data[p].red_jar_stage3.samples) <= Stage1Trials + Stage3Trials

\* C12 (as claimed): a session holds trials of a stage only once the phase before it
\* is complete: stage 1 trials only with the 10 training results, stage 2 trials only
\* with stage 1's 40 trials, stage 3 trials only with stage 2's 30, and never more
\* than 10 training results.
C12_SubmissionsOnlyInPhase ==
    \A p \in Participants :
        LET session == experiment_data[p]
        IN  /\ Len(session.training_trials) <= num_training_trials
            /\ Len(session.red_jar_stage1.samples) > 0
                  => Len(session.training_trials) = num_training_trials
            /\ Len(session.green_jar_stage2.samples) > 0
                  => Len(session.red_jar_stage1.samples) >= Stage1Trials
            /\ Len(session.red_jar_stage3.samples) > 0
                  => Len(session.green_jar_stage2.samples) >= Stage2Trials

\* C13: in every export, of the desktop session and of the server, the rows of stage 3
\* carry the true probability the rows of stage 1 carry, and the desktop's JSON entry
\* of stage 3 the true probability of its entry of stage 1.
C13_Stage3ProbabilityIsStage1s ==
    \A k \in 1..Len(exported) :
        LET csv == exported[k].csv
            json == exported[k].json
        IN  /\ \A i \in 1..Len(csv) : \A j \in 1..Len(csv) :
                  (csv[i].stage = "stage1" /\ csv[j].stage = "stage3")
                      => csv[j].true_probability = csv[i].true_probability
            /\ ~InHttp
                  => json.red_jar_stage3.true_probability
                        = json.red_jar_stage1.true_probability

\* the desktop session has exported rows of stage 1 and rows of stage 3
C13_Witness ==
    /\ pc = "thank_you" /\ Len(exported) = 1
    /\ \E i \in 1..Len(exported[1].csv) : exported[1].csv[i].stage = "stage1"
    /\ \E j \in 1..Len(exported[1].csv) : exported[1].csv[j].stage = "stage3"
    /\ ~exported[1].json.red_jar_stage3.null

\* C14 (as claimed): once a session holds stage 3 trials, what it holds under
\* red_jar_stage3 begins with all it holds under red_jar_stage1.
C14_Stage3ExtendsStage1 ==
    \A p \in Participants :
        LET session == experiment_data[p]
        IN  Len(session.red_jar_stage3.samples) > 0
               => /\ IsPrefix(session.red_jar_stage1.samples, session.red_jar_stage3.samples)
                  /\ IsPrefix(session.red_jar_stage1.estimates,
                              session.red_jar_stage3.estimates)
                  /\ IsPrefix(session.red_jar_stage1.confidences,
                              session.red_jar_stage3.confidences)

\* C15 (as claimed): once the data of the first red-jar stage is stored under
\* red_jar_stage1, no step changes the samples, estimates and confidences stored
\* there, a draw or a response of the stage resumed from it included.
C15_Stage1RecordImmutable ==
    [][ data.red_jar_stage1 # NoStageData
          => /\ data'.red_jar_stage1 = data.red_jar_stage1
             /\ heap'[data.red_jar_stage1.ref] = heap[data.red_jar_stage1.ref] ]_vars

\* C16 (as claimed): a fresh stage holds at most one estimate given before the first
\* draw, that is at most one estimate more than confidences, and a resumed stage
\* appends no such estimate to the lists it took over.
C16_OneInitialEstimate ==
    InStage
       => IF previous.given
          THEN Len(Estimates) - Len(Confidences)
                  = Len(previous.estimates) - Len(previous.confidences)
          ELSE Len(Estimates) <= Len(Confidences) + 1

\* C17 (as claimed): in the exported files of the desktop session, the row of trial i
\* of a stage carries the confidence of the i-th response of that stage and its
\* estimate, which the stage's estimates hold after the one given before the first
\* draw.
C17_RowHoldsItsResponse ==
    (~InHttp /\ Len(exported) > 0)
       => \A r \in 1..Len(exported[1].csv) :
             LET row == exported[1].csv[r]
                 stage_data ==
                     IF row.stage = "stage1" THEN exported[1].json.red_jar_stage1
                     ELSE IF row.stage = "stage2" THEN exported[1].json.green_jar_stage2
                     ELSE exported[1].json.red_jar_stage3
             IN  /\ row.sample_color = stage_data.samples[row.trial]
                 /\ row.trial <= Len(stage_data.confidences)
                       => /\ row.confidence = stage_data.confidences[row.trial]
                          /\ row.probability_estimate = stage_data.estimates[row.trial + 1]

\* C18: in every export, of the desktop session and of the server, the CSV file holds
\* the rows of stage 1, stage 2 and stage 3 in that order, one row per sample the
\* JSON file holds for the stage, in draw order, row i with trial = i,
\* cumulative_total = i and cumulative_black = the number of black samples among the
\* stage's first i.
C18_OneRowPerOutcome ==
    \A k \in 1..Len(exported) :
        LET csv == exported[k].csv
            json == exported[k].json
            Rows(stage) == SelectSeq(csv, LAMBDA row : row.stage = stage)
            RowsMatch(rows, samples) ==
                /\ Len(rows) = Len(samples)
                /\ \A i \in 1..Len(rows) :
                      /\ rows[i].trial = i
                      /\ rows[i].cumulative_total = i
                      /\ rows[i].sample_color = samples[i]
                      /\ rows[i].cumulative_black
                            = Cardinality({ j \in 1..i : samples[j] = "black" })
        IN  /\ csv = Rows("stage1") \o Rows("stage2") \o Rows("stage3")
            /\ RowsMatch(Rows("stage1"), json.red_jar_stage1.samples)
            /\ RowsMatch(Rows("stage2"), json.green_jar_stage2.samples)
            /\ RowsMatch(Rows("stage3"), json.red_jar_stage3.samples)

\* the server has exported a stage that holds a white sample and then a black one
C18_Witness ==
    /\ pc = "httpexport" /\ Len(exported) = 1
    /\ \E stage \in HttpStages :
          exported[1].json[stage].samples = <<"white", "black">>
    /\ Len(exported[1].csv) = 2

\* C19: an export changes no recorded data, and an export of a session that has not
\* changed since its last export writes the same JSON and CSV content again: on the
\* server a second export request straight after the first leaves the files'
\* content as it was, and in the desktop session the files written are what an
\* export would still write at any later moment.
C19_ExportIdempotentReadOnly ==
    /\ [][ (\E id \in RequestIds : export_data(id))
              => experiment_data' = experiment_data ]_vars
    /\ [][ \A id \in Participants :
              (response = Response(200, "", Exported(id))
                  /\ export_data(id))
                 => exported' = exported ]_vars
    /\ [][ Export => (data' = data /\ heap' = heap) ]_vars
    /\ [](Phase = 7 => exported = <<[json |-> JsonBlob, csv |-> CsvRows]>>)

\* the server has exported a session that holds trials and has not changed since
C19_Witness ==
    /\ pc = "httpexport"
    /\ response = Response(200, "", Exported("P1"))
    /\ Len(exported) = 1
    /\ exported[1].json = experiment_data["P1"]
    /\ Len(exported[1].csv) >= 2

\* C20 (as claimed): once a training trial holds a result, no further event of the
\* trial's choice screen changes it.
C20_ChoiceIsFinal ==
    [][ (pc = "training" /\ pc' = "training" /\ trial.result # "None")
          => trial'.result = trial.result ]_vars

\* C21: training_trials holds the entries of trials 1..k in order, each with the
\* result 'correct' or 'incorrect'; k < 10 while the session is at consent or in
\* training, and k = 10 in every later phase.
C21_TrainingLog ==
    LET training_trials == data.training_trials
    IN  /\ \A i \in 1..Len(training_trials) :
              /\ training_trials[i].trial = i
              /\ training_trials[i].result \in {"correct", "incorrect"}
        /\ Len(training_trials) <= 10
        /\ Phase \in {1, 2} => Len(training_trials) < 10
        /\ Phase >= 3 => Len(training_trials) = 10

\* training has ended, its first trial answered wrongly
C21_Witness ==
    /\ pc = "instr_main" /\ Len(data.training_trials) = 10
    /\ data.training_trials[1].result = "incorrect"
    /\ data.training_trials[10] = [trial |-> 10, result |-> "correct"]

\* C22: the two urns of a training trial have different probabilities, both of the
\* grid 0.0, 0.1, ..., 1.0 (in hundredths), and the true source is one of the two.
C22_TrainingUrns ==
    pc \in {"training", "feedback"}
       => /\ trial.urn_a # trial.urn_b
          /\ trial.urn_a \in { 10 * k : k \in 0..10 }
          /\ trial.urn_b \in { 10 * k : k \in 0..10 }
          /\ trial.true_urn \in {"A", "B"}

\* a trial between the urns 1.0 and 0.0, the true source being urn B
C22_Witness ==
    /\ pc = "training" /\ trial_num = 2
    /\ trial.urn_a = 100 /\ trial.urn_b = 0 /\ trial.true_urn = "B"

\* C23 (as claimed): start_experiment for a participant who already has a session is
\* refused and leaves that session as it was.
C23_DuplicateStartRefused ==
    [][ \A id \in Participants :
           (experiment_data[id].present
               /\ \E probs \in HttpProbabilities : start_experiment(id, probs[1], probs[2]))
              => /\ response'.status # 200
                 /\ experiment_data'[id] = experiment_data[id] ]_vars

\* C24: a request that names participant A, of any of the six kinds, leaves what the
\* store holds for every other participant as it was.
C24_SessionsShareNothing ==
    [][ \A A \in RequestIds :
           (\/ \E probs \in HttpProbabilities : start_experiment(A, probs[1], probs[2])
            \/ \E jar_type \in {"red", "green"} : \E r \in HarnessRandoms :
                  draw_ball(A, jar_type, r)
            \/ \E stage \in RequestStages : \E t \in HttpTrials :
                  submit_trial(A, stage, t[1], t[2], t[3])
            \/ \E n \in 1..(MaxStored + 1) : \E result \in HttpResults :
                  submit_training(A, n, result)
            \/ \E stage \in RequestStages : get_stage_data(A, stage)
            \/ export_data(A))
              => \A B \in Participants \ {A} :
                    experiment_data'[B] = experiment_data[B] ]_vars

\* both participants have a session that holds data
C24_Witness ==
    /\ pc = "httpall"
    /\ experiment_data["P1"].present /\ experiment_data["P2"].present
    /\ Len(experiment_data["P1"].red_jar_stage1.samples) = 1
    /\ Len(experiment_data["P2"].training_trials) = 1

\* C25 (as claimed): a stage resumed from the stored data of the first stage has the
\* true probability of that data.
C25_ResumedProbabilityMatches ==
    (InStage /\ previous.given)
       => urn_probability = data.red_jar_stage1.true_probability

\* C26 (as claimed): a drawn ball is not part of the stage's samples while its
\* response is awaited: the samples are as many as the confidences.
C26_DrawAppendsNothing ==
    (InStage /\ waiting_for_estimate) => Len(Samples) = Len(Confidences)

\* C27 (as claimed): the probability of the urn of a stage lies in [0, 1] (in
\* hundredths).
C27_UrnProbabilityInRange ==
    InStage => (0 <= urn_probability /\ urn_probability <= 100)

\* C28 (as claimed): in a fresh stage whose initial estimate has been given, exactly
\* one of waiting_for_draw and waiting_for_estimate holds, the confidences are
\* current_trial many, the estimates one more, and the samples current_trial many
\* while a draw is awaited and one more while a response is awaited.
C28_FreshStageCounts ==
    (InStage /\ ~previous.given /\ spc = "loop")
       => /\ waiting_for_draw # waiting_for_estimate
          /\ Len(Confidences) = current_trial
          /\ Len(Estimates) = current_trial + 1
          /\ Len(Samples) = current_trial + (IF waiting_for_draw THEN 0 ELSE 1)

\* C29: every stage of every session holds as many samples as estimates and as
\* confidences; a submit_trial for a known participant and one of the three stages
\* appends its ball colour, estimate and confidence to the three lists of that stage
\* and changes nothing else of the store; get_stage_data answers with the three
\* lists the stage holds.
C29_StageListsInStep ==
    /\ [](\A p \in Participants : \A stage \in HttpStages :
             /\ Len(experiment_data[p][stage].samples)
                   = Len(experiment_data[p][stage].estimates)
             /\ Len(experiment_data[p][stage].samples)
                   = Len(experiment_data[p][stage].confidences))
    /\ [][ \A id \in Participants : \A stage \in HttpStages : \A t \in HttpTrials :
              (experiment_data[id].present /\ submit_trial(id, stage, t[1], t[2], t[3]))
                 => experiment_data' =
                       [experiment_data EXCEPT
                           ![id][stage] = [samples |-> Append(@.samples, t[1]),
                                           estimates |-> Append(@.estimates, t[2]),
                                           confidences |-> Append(@.confidences, t[3])]]
       ]_vars
    /\ [][ \A id \in Participants : \A stage \in HttpStages :
              (experiment_data[id].present /\ get_stage_data(id, stage))
                 => /\ response' = Response(200, "", experiment_data[id][stage])
                    /\ experiment_data' = experiment_data ]_vars

\* get_stage_data has answered with the two trials submitted for stage 1, in the
\* order of their submission
C29_Witness ==
    /\ pc = "http"
    /\ experiment_data["P1"].red_jar_stage1
          = [samples |-> <<"black", "white">>, estimates |-> <<50, 101>>,
             confidences |-> <<5, 5>>]
    /\ response = Response(200, "", experiment_data["P1"].red_jar_stage1)

\* C30: draw_ball, submit_trial, submit_training, get_stage_data and export_data for
\* a participant id that has no session answer with an error and leave the store and
\* the exported files as they were; start_experiment with an empty participant id
\* answers with an error and leaves the store as it was.
C30_UnknownParticipantRefused ==
    /\ [][ \A id \in RequestIds :
              ((id \notin Participants \/ ~experiment_data[id].present)
                  /\ \/ \E jar_type \in {"red", "green"} : \E r \in HarnessRandoms :
                           draw_ball(id, jar_type, r)
                     \/ \E stage \in RequestStages : \E t \in HttpTrials :
                           submit_trial(id, stage, t[1], t[2], t[3])
                     \/ \E n \in 1..(MaxStored + 1) : \E result \in HttpResults :
                           submit_training(id, n, result)
                     \/ \E stage \in RequestStages : get_stage_data(id, stage)
                     \/ export_data(id))
                 => /\ response'.status = 400 /\ response'.error # ""
                    /\ experiment_data' = experiment_data
                    /\ exported' = exported ]_vars
    /\ [][ (\E probs \in HttpProbabilities : start_experiment("", probs[1], probs[2]))
              => /\ response'.status = 400 /\ response'.error # ""
                 /\ experiment_data' = experiment_data ]_vars

\* a request for a participant without a session was refused while another
\* participant's session holds data
C30_Witness ==
    /\ pc = "httpall"
    /\ response = Response(400, "Invalid participant ID", NoBody)
    /\ ~experiment_data["P2"].present
    /\ experiment_data["P1"].present
    /\ Len(experiment_data["P1"].red_jar_stage1.samples) = 1
    /\ Len(exported) = 1

\* C31: in a session of the desktop experiment, the data are never exported
\* more than once; and if the window is never closed and consent never
\* declined, and the participant does not leave the program waiting for ever
\* (for consent, for SPACE on an instruction screen, for a choice in a training
\* trial, for a valid initial estimate, for a draw that is awaited, for a valid
\* response that is awaited), then the session ends, with exactly one export.
C31_ExportsOnceAndTerminates ==
    /\ [](Len(exported) <= 1)
    /\ ( /\ [](pc \notin {"declined", "exited"})
         /\ []<>~(pc = "consent" /\ waiting)
         /\ []<>~(InInstructions /\ waiting)
         /\ []<>~(pc = "training" /\ waiting)
         /\ []<>~(InStage /\ spc = "init_est" /\ waiting)
         /\ []<>~(InStage /\ spc = "loop" /\ StageGoesOn /\ waiting_for_draw)
         /\ []<>~(InStage /\ spc = "loop" /\ StageGoesOn /\ waiting_for_estimate) )
       => <>[](pc = "done" /\ Len(exported) = 1)

\* a session that went through training and the stages has ended, and its data
\* were exported once
C31_Witness ==
    /\ pc = "done"
    /\ Len(exported) = 1
    /\ Len(data.training_trials) = num_training_trials
    /\ data.red_jar_stage1 # NoStageData
    /\ data.green_jar_stage2 # NoStageData
    /\ data.red_jar_stage3 # NoStageData

====
